---- MODULE Spec2Model ----
(***************************************************************************)
(* Model of shavar/sources.py: the refresh-gated chunk cache (Source,      *)
(* FileSource, S3FileSource).  One Source object is modelled together with *)
(* its backing resource (a file or an S3 object) and the wall clock.       *)
(* Every public method is one action; the environment (clock, writes to    *)
(* and deletion of the backing resource) has its own actions.              *)
(***************************************************************************)
EXTENDS Integers, Sequences, FiniteSets, TLC

\* ---------------------------------------------------------------- bounds
MaxTime == 3        \* the clock runs over 0..MaxTime (seconds)
MaxInterval == 2    \* refresh_interval is drawn from 0..MaxInterval
MaxChunk == 2       \* chunk numbers are 1..MaxChunk
MaxReq == 1         \* fetch() is given at most MaxReq add and MaxReq sub numbers
MaxLoadTime == 1    \* seconds that may pass while load() runs
MaxPath == 6        \* characters in the path of the source URL
NThreads == 2       \* callers running methods of one Source concurrently

Nums == 1..MaxChunk
Times == 0..MaxTime
Kinds == {"Source", "FileSource", "S3FileSource"}

\* Python's None and a present value
None == <<>>
Some(x) == <<x>>
\* Returned values: a bool, and the pair list_chunks() returns (the dict
\* fetch() returns is a record with fields adds and subs)
Bool(b) == [bool |-> b]
Pair(x, y) == [tuple |-> <<x, y>>]

\* ------------------------------------------------- the backing resource
\* A byte stream is either malformed (ok = FALSE) or the serialisation of
\* revision rev of the list, holding add chunks a and sub chunks s.
BadContent == [ok |-> FALSE, rev |-> 0, a |-> {}, s |-> {}]
GoodContents == {[ok |-> TRUE, rev |-> k, a |-> 1..k, s |-> k..MaxChunk] : k \in Nums}
Contents == {BadContent} \cup GoodContents

\* The parser collaborator: the chunk collection of a well-formed stream.
parse_file_source(fp) ==
  [adds |-> [n \in fp.a |-> [type |-> "a", number |-> n, rev |-> fp.rev]],
   subs |-> [n \in fp.s |-> [type |-> "s", number |-> n, rev |-> fp.rev]]]

\* The etag S3 reports for an object: a digest of its content.
etag(fp) == fp.rev

VARIABLES
  kind,          \* the class of the Source object
  interval,      \* self.interval
  clock,         \* int(time.time())
  present,       \* whether the file / S3 object exists
  content,       \* its bytes
  mtime,         \* int(os.stat(path).st_mtime) of the file
  last_refresh,  \* self.last_refresh
  last_check,    \* self.last_check
  chunks,        \* self.chunks: None or Some(collection)
  chunk_index,   \* self.chunk_index: None or Some([adds, subs])
  current_etag,  \* self.current_etag (S3FileSource): None or Some(etag)
  last,          \* history: the most recent method call and its outcome
  lastProbe,     \* history: None or Some(now) of the latest refresh() that probed
  calls,         \* history: the parity of the number of method calls made
  pending,       \* history: a reload through refresh() failed, none succeeded since
  threads,       \* the callers running a method concurrently (SpecConc)
  url_path,      \* self.url.path given to S3FileSource.__init__ (SpecKey)
  key_name       \* self.key_name: None or Some(characters) (SpecKey)

vars == <<kind, interval, clock, present, content, mtime, last_refresh,
          last_check, chunks, chunk_index, current_etag, last, lastProbe, calls,
          pending, threads, url_path, key_name>>

\* What the atomic-call specification leaves alone
aux == <<threads, url_path, key_name>>

\* The Source object and the backing resource as records
Self == [chunks |-> chunks, chunk_index |-> chunk_index, last_check |-> last_check,
         last_refresh |-> last_refresh, current_etag |-> current_etag]
Env == [present |-> present, content |-> content, mtime |-> mtime]

\* ------------------------------------------------------------- methods
\* Every method is an operator from the object (and what it reads of the
\* world) to the new object, the exception raised ("none" if none) and the
\* value returned.

\* Mutant of populate_chunks: the sub index is built from the add chunks' keys.
populate_chunks_addKeysTwice(self, fp, tc, tr) ==
  IF ~fp.ok
    THEN [self |-> self, err |-> "ParseError"]
    ELSE LET c == parse_file_source(fp) IN
         [self |-> [self EXCEPT !.chunks = Some(c),
                                !.last_check = tc,
                                !.last_refresh = tr,
                                !.chunk_index = Some([adds |-> DOMAIN c.adds,
                                                      subs |-> DOMAIN c.adds])],
          err |-> "none"]

\* Mutant of populate_chunks: a parse failure leaves self.chunks empty.
populate_chunks_clobber(self, fp, tc, tr) ==
  IF ~fp.ok
    THEN [self |-> [self EXCEPT !.chunks = None, !.chunk_index = None],
          err |-> "ParseError"]
    ELSE LET c == parse_file_source(fp) IN
         [self |-> [self EXCEPT !.chunks = Some(c),
                                !.last_check = tc,
                                !.last_refresh = tr,
                                !.chunk_index = Some([adds |-> DOMAIN c.adds,
                                                      subs |-> DOMAIN c.subs])],
          err |-> "none"]

\* Source._populate_chunks: tc and tr are the two readings of time.time().
populate_chunks(self, fp, tc, tr) ==
  IF ~fp.ok
    THEN [self |-> self, err |-> "ParseError"]
    ELSE LET c == parse_file_source(fp) IN
         [self |-> [self EXCEPT !.chunks = Some(c),
                                !.last_check = tc,
                                !.last_refresh = tr,
                                !.chunk_index = Some([adds |-> DOMAIN c.adds,
                                                      subs |-> DOMAIN c.subs])],
          err |-> "none"]

\* Source.load: `raise NotImplemented` raises TypeError, NotImplemented being
\* no exception class.
Source_load(self) == [self |-> self, err |-> "TypeError"]

\* Mutant of FileSource_load: a missing file is recorded as a reload.
FileSource_load_stamp(self, env, tc, tr) ==
  IF ~env.present
    THEN [self |-> [self EXCEPT !.last_refresh = tr], err |-> "NoDataError"]
    ELSE populate_chunks(self, env.content, tc, tr)

\* FileSource.load
FileSource_load(self, env, tc, tr) ==
  IF ~env.present
    THEN [self |-> self, err |-> "NoDataError"]
    ELSE populate_chunks(self, env.content, tc, tr)

\* Mutant of S3FileSource_load: the etag of the loaded object is not recorded.
S3FileSource_load_noEtag(self, env, tc, tr) ==
  IF ~env.present
    THEN [self |-> self, err |-> "NoDataError"]
    ELSE populate_chunks(self, env.content, tc, tr)

\* Mutant of S3FileSource_load: the etag is recorded before the parse.
S3FileSource_load_etagFirst(self, env, tc, tr) ==
  IF ~env.present
    THEN [self |-> self, err |-> "NoDataError"]
    ELSE LET r == populate_chunks(self, env.content, tc, tr) IN
         [r EXCEPT !.self.current_etag = Some(etag(env.content))]

\* S3FileSource.load
S3FileSource_load(self, env, tc, tr) ==
  IF ~env.present
    THEN [self |-> self, err |-> "NoDataError"]
    ELSE LET r == populate_chunks(self, env.content, tc, tr) IN
         IF r.err # "none"
           THEN r
           ELSE [r EXCEPT !.self.current_etag = Some(etag(env.content))]

load(k, self, env, tc, tr) ==
  CASE k = "FileSource" -> FileSource_load(self, env, tc, tr)
    [] k = "S3FileSource" -> S3FileSource_load(self, env, tc, tr)
    [] OTHER -> Source_load(self)

\* needs_refresh: [err, val]
Source_needs_refresh(self) == [err |-> "none", val |-> FALSE]

\* os.stat raises OSError on a missing file
FileSource_needs_refresh(self, env) ==
  IF ~env.present
    THEN [err |-> "OSError", val |-> FALSE]
    ELSE [err |-> "none", val |-> ~(env.mtime <= self.last_refresh)]

\* bucket.get_key returns None for a missing object; None.etag raises
\* AttributeError
S3FileSource_needs_refresh(self, env) ==
  IF ~env.present
    THEN [err |-> "AttributeError", val |-> FALSE]
    ELSE [err |-> "none", val |-> ~(Some(etag(env.content)) = self.current_etag)]

needs_refresh(k, self, env) ==
  CASE k = "FileSource" -> FileSource_needs_refresh(self, env)
    [] k = "S3FileSource" -> S3FileSource_needs_refresh(self, env)
    [] OTHER -> Source_needs_refresh(self)

\* Mutant of gate_open: the interval is left out of the comparison.
gate_open_noInterval(self, ival, now) == now >= self.last_check

\* The interval gate of refresh()
gate_open(self, ival, now) == now - ival >= self.last_check

\* Mutant of refresh: a check that finds nothing stale is recorded as a reload.
refresh_stampReload(k, self, ival, now, env, envL, tc, tr) ==
  IF gate_open(self, ival, now)
    THEN LET s1 == [self EXCEPT !.last_check = now]
             nr == needs_refresh(k, s1, env)
         IN  IF nr.err # "none"
               THEN [self |-> s1, err |-> nr.err, ret |-> None, gate |-> TRUE,
                     probed |-> TRUE, stale |-> FALSE, loadCalled |-> FALSE]
             ELSE IF nr.val
               THEN LET l == load(k, s1, envL, tc, tr) IN
                    [self |-> l.self, err |-> l.err,
                     ret |-> IF l.err = "none" THEN Some(Bool(TRUE)) ELSE None,
                     gate |-> TRUE, probed |-> TRUE, stale |-> TRUE,
                     loadCalled |-> TRUE]
             ELSE [self |-> [s1 EXCEPT !.last_refresh = now], err |-> "none",
                   ret |-> Some(Bool(FALSE)), gate |-> TRUE,
                   probed |-> TRUE, stale |-> FALSE, loadCalled |-> FALSE]
    ELSE [self |-> self, err |-> "none", ret |-> Some(Bool(FALSE)), gate |-> FALSE,
          probed |-> FALSE, stale |-> FALSE, loadCalled |-> FALSE]

\* Mutant of refresh: `return True` is missing after load().
refresh_fallthrough(k, self, ival, now, env, envL, tc, tr) ==
  IF gate_open(self, ival, now)
    THEN LET s1 == [self EXCEPT !.last_check = now]
             nr == needs_refresh(k, s1, env)
         IN  IF nr.err # "none"
               THEN [self |-> s1, err |-> nr.err, ret |-> None, gate |-> TRUE,
                     probed |-> TRUE, stale |-> FALSE, loadCalled |-> FALSE]
             ELSE IF nr.val
               THEN LET l == load(k, s1, envL, tc, tr) IN
                    [self |-> l.self, err |-> l.err,
                     ret |-> IF l.err = "none" THEN Some(Bool(FALSE)) ELSE None,
                     gate |-> TRUE, probed |-> TRUE, stale |-> TRUE,
                     loadCalled |-> TRUE]
             ELSE [self |-> s1, err |-> "none", ret |-> Some(Bool(FALSE)),
                   gate |-> TRUE,
                   probed |-> TRUE, stale |-> FALSE, loadCalled |-> FALSE]
    ELSE [self |-> self, err |-> "none", ret |-> Some(Bool(FALSE)), gate |-> FALSE,
          probed |-> FALSE, stale |-> FALSE, loadCalled |-> FALSE]

\* Source.refresh.  env is the backing resource when needs_refresh() looks at
\* it and envL when load() does.  The result also records what the call did:
\* gate (the interval gate passed), probed (needs_refresh was called), stale
\* (it returned True), loadCalled.
refresh(k, self, ival, now, env, envL, tc, tr) ==
  IF gate_open(self, ival, now)
    THEN LET s1 == [self EXCEPT !.last_check = now]
             nr == needs_refresh(k, s1, env)
         IN  IF nr.err # "none"
               THEN [self |-> s1, err |-> nr.err, ret |-> None, gate |-> TRUE,
                     probed |-> TRUE, stale |-> FALSE, loadCalled |-> FALSE]
             ELSE IF nr.val
               THEN LET l == load(k, s1, envL, tc, tr) IN
                    [self |-> l.self, err |-> l.err,
                     ret |-> IF l.err = "none" THEN Some(Bool(TRUE)) ELSE None,
                     gate |-> TRUE, probed |-> TRUE, stale |-> TRUE,
                     loadCalled |-> TRUE]
             ELSE [self |-> s1, err |-> "none", ret |-> Some(Bool(FALSE)), gate |-> TRUE,
                   probed |-> TRUE, stale |-> FALSE, loadCalled |-> FALSE]
    ELSE [self |-> self, err |-> "none", ret |-> Some(Bool(FALSE)), gate |-> FALSE,
          probed |-> FALSE, stale |-> FALSE, loadCalled |-> FALSE]

\* Mutant of fetch_body: a number that is not loaded is skipped.
fetch_body_lenient(self, adds, subs) ==
  IF self.chunks = None
    THEN IF adds = <<>> /\ subs = <<>>
           THEN [err |-> "none", ret |-> Some([adds |-> <<>>, subs |-> <<>>])]
           ELSE [err |-> "AttributeError", ret |-> None]
    ELSE LET c == self.chunks[1]
             in_a(n) == n \in DOMAIN c.adds
             in_s(n) == n \in DOMAIN c.subs
             fa == SelectSeq(adds, in_a)
             fs == SelectSeq(subs, in_s)
         IN  [err |-> "none",
              ret |-> Some([adds |-> [i \in 1..Len(fa) |-> c.adds[fa[i]]],
                            subs |-> [i \in 1..Len(fs) |-> c.subs[fs[i]]]])]

\* The two loops of fetch() over the object left by refresh(): None.adds
\* raises AttributeError, a missing key KeyError.
fetch_body(self, adds, subs) ==
  IF self.chunks = None
    THEN IF adds = <<>> /\ subs = <<>>
           THEN [err |-> "none", ret |-> Some([adds |-> <<>>, subs |-> <<>>])]
           ELSE [err |-> "AttributeError", ret |-> None]
    ELSE LET c == self.chunks[1] IN
         IF \E i \in 1..Len(adds) : adds[i] \notin DOMAIN c.adds
           THEN [err |-> "KeyError", ret |-> None]
         ELSE IF \E i \in 1..Len(subs) : subs[i] \notin DOMAIN c.subs
           THEN [err |-> "KeyError", ret |-> None]
         ELSE [err |-> "none",
               ret |-> Some([adds |-> [i \in 1..Len(adds) |-> c.adds[adds[i]]],
                             subs |-> [i \in 1..Len(subs) |-> c.subs[subs[i]]]])]

\* Source.fetch
fetch(k, self, ival, now, env, envL, tc, tr, adds, subs) ==
  LET r == refresh(k, self, ival, now, env, envL, tc, tr) IN
  IF r.err # "none"
    THEN r
    ELSE LET b == fetch_body(r.self, adds, subs) IN
         [r EXCEPT !.err = b.err, !.ret = b.ret]

\* The return statement of list_chunks(): None['adds'] raises TypeError.
list_chunks_body(self) ==
  IF self.chunk_index = None
    THEN [err |-> "TypeError", ret |-> None]
    ELSE [err |-> "none",
          ret |-> Some(Pair(self.chunk_index[1].adds, self.chunk_index[1].subs))]

\* Source.list_chunks
list_chunks(k, self, ival, now, env, envL, tc, tr) ==
  LET r == refresh(k, self, ival, now, env, envL, tc, tr) IN
  IF r.err # "none"
    THEN r
    ELSE LET b == list_chunks_body(r.self) IN
         [r EXCEPT !.err = b.err, !.ret = b.ret]

\* The collection's own search, a collaborator: the chunks holding the
\* prefix (chunk n of a list holds hash prefix n).
ChunkList_find_prefix(c, prefix) ==
  [found |-> {c.adds[n] : n \in DOMAIN c.adds \cap {prefix}}
               \cup {c.subs[n] : n \in DOMAIN c.subs \cap {prefix}}]

\* The search over the loaded collection: None.find_prefix raises
\* AttributeError.
find_prefix_body(self, prefix) ==
  IF self.chunks = None
    THEN [err |-> "AttributeError", ret |-> None]
    ELSE [err |-> "none", ret |-> Some(ChunkList_find_prefix(self.chunks[1], prefix))]

\* Mutant of find_prefix: the refresh protocol runs first, as in fetch().
find_prefix_refreshing(k, self, ival, now, env, prefix) ==
  LET r == refresh(k, self, ival, now, env, env, now, now) IN
  IF r.err # "none"
    THEN r
    ELSE LET b == find_prefix_body(r.self, prefix) IN
         [r EXCEPT !.err = b.err, !.ret = b.ret]

\* Source.find_prefix: delegates to self.chunks and nothing else.
find_prefix(k, self, ival, now, env, prefix) ==
  LET b == find_prefix_body(self, prefix) IN
  [self |-> self, err |-> b.err, ret |-> b.ret, gate |-> FALSE,
   probed |-> FALSE, stale |-> FALSE, loadCalled |-> FALSE]

\* ----------------------------------------- S3FileSource.__init__: key_name
\* Strings are sequences of characters; a URL path is empty or begins with "/"
Chars == {"/", "a", "."}
Paths == {p \in UNION {[1..n -> Chars] : n \in 0..MaxPath} : p = <<>> \/ p[1] = "/"}

\* str.startswith(pre) and the string of n slashes
startswith(p, pre) == Len(p) >= Len(pre) /\ SubSeq(p, 1, Len(pre)) = pre
slashes(n) == [i \in 1..n |-> "/"]

\* str.split('/')
RECURSIVE str_split(_)
str_split(p) ==
  IF \A i \in 1..Len(p) : p[i] # "/"
    THEN <<p>>
    ELSE LET i == CHOOSE k \in 1..Len(p) : p[k] = "/" /\ \A m \in 1..(k - 1) : p[m] # "/"
         IN  <<SubSeq(p, 1, i - 1)>> \o str_split(SubSeq(p, i + 1, Len(p)))

\* '/'.join(comps)
RECURSIVE str_join(_)
str_join(comps) ==
  IF comps = <<>> THEN <<>>
  ELSE IF Len(comps) = 1 THEN comps[1]
  ELSE comps[1] \o <<"/">> \o str_join(Tail(comps))

\* str.rstrip('/')
RECURSIVE rstrip(_)
rstrip(p) ==
  IF p # <<>> /\ p[Len(p)] = "/" THEN rstrip(SubSeq(p, 1, Len(p) - 1)) ELSE p

\* The loop of posixpath.normpath over the components
RECURSIVE norm_comps(_, _, _)
norm_comps(comps, new_comps, initial_slashes) ==
  IF comps = <<>> THEN new_comps
  ELSE LET comp == comps[1]
           n == Len(new_comps)
       IN  IF comp \in {<<>>, <<".">>}
             THEN norm_comps(Tail(comps), new_comps, initial_slashes)
           ELSE IF \/ comp # <<".", ".">>
                   \/ (initial_slashes = 0 /\ n = 0)
                   \/ (n > 0 /\ new_comps[n] = <<".", ".">>)
             THEN norm_comps(Tail(comps), Append(new_comps, comp), initial_slashes)
           ELSE IF n > 0
             THEN norm_comps(Tail(comps), SubSeq(new_comps, 1, n - 1), initial_slashes)
           ELSE norm_comps(Tail(comps), new_comps, initial_slashes)

\* posixpath.normpath
normpath(path) ==
  IF path = <<>> THEN <<".">>
  ELSE LET initial_slashes ==
             IF ~startswith(path, slashes(1)) THEN 0
             ELSE IF startswith(path, slashes(2)) /\ ~startswith(path, slashes(3)) THEN 2
             ELSE 1
           joined == str_join(norm_comps(str_split(path), <<>>, initial_slashes))
           res == slashes(initial_slashes) \o joined
       IN  IF res = <<>> THEN <<".">> ELSE res

\* posixpath.split: <<head, tail>>
split(p) ==
  LET idx == {k \in 1..Len(p) : p[k] = "/"}
      i == IF idx = {} THEN 0 ELSE CHOOSE k \in idx : \A m \in idx : m <= k
      head == SubSeq(p, 1, i)
      tail == SubSeq(p, i + 1, Len(p))
  IN  <<IF head # <<>> /\ head # slashes(Len(head)) THEN rstrip(head) ELSE head, tail>>

\* posixpath.join(a, *p), elems being <<a>> \o p
RECURSIVE join_onto(_, _)
join_onto(path, p) ==
  IF p = <<>> THEN path
  ELSE LET b == p[1] IN
       join_onto(IF startswith(b, slashes(1)) THEN b
                 ELSE IF path = <<>> \/ path[Len(path)] = "/" THEN path \o b
                 ELSE path \o <<"/">> \o b,
                 Tail(p))
join(elems) == join_onto(elems[1], Tail(elems))

\* while '/' == elems[0]: elems.pop(0)
RECURSIVE pop_slashes(_)
pop_slashes(elems) ==
  IF elems[1] = <<"/">> THEN pop_slashes(Tail(elems)) ELSE elems

\* The key name S3FileSource.__init__ computes from self.url.path
compute_key_name(path) == join(pop_slashes(split(normpath(path))))

\* ------------------------------------------------------------- actions
Reqs == UNION {[1..n -> Nums] : n \in 0..MaxReq}

NoCall == [op |-> "init", adds |-> <<>>, subs |-> <<>>, gate |-> FALSE,
           probed |-> FALSE, stale |-> FALSE, loadCalled |-> FALSE,
           err |-> "none", ret |-> None]

\* Source.__init__ / S3FileSource.__init__, any clock and any backing resource
Init ==
  /\ kind \in Kinds
  /\ interval \in 0..MaxInterval
  /\ clock \in Times
  /\ present \in BOOLEAN
  /\ content \in IF present THEN Contents ELSE {BadContent}
  /\ mtime \in IF kind = "FileSource" /\ present THEN 0..clock ELSE {0}
  /\ last_refresh = 0
  /\ last_check = 0
  /\ chunks = None
  /\ chunk_index = None
  /\ current_etag = None
  /\ last = NoCall
  /\ lastProbe = None
  /\ calls = 0
  /\ pending = FALSE
  /\ threads = <<>>
  /\ url_path = <<>>
  /\ key_name = None

\* The readings of time.time() inside load()
LoadTimes(t) == {x \in Times : t <= x /\ x <= t + MaxLoadTime}

\* The call ran load() and load() returned normally (an error raised after
\* it comes from the loops of fetch())
Loaded(r) == r.loadCalled /\ r.err \in {"none", "KeyError"}

\* Install the object and the record of the call
Install(op, adds, subs, r, envL, tr) ==
  /\ chunks' = r.self.chunks
  /\ chunk_index' = r.self.chunk_index
  /\ last_check' = r.self.last_check
  /\ last_refresh' = r.self.last_refresh
  /\ current_etag' = r.self.current_etag
  /\ last' = [op |-> op, adds |-> adds, subs |-> subs, gate |-> r.gate,
              probed |-> r.probed, stale |-> r.stale, loadCalled |-> r.loadCalled,
              err |-> r.err, ret |-> r.ret]
  /\ lastProbe' = IF r.probed THEN Some(clock) ELSE lastProbe
  /\ calls' = 1 - calls
  /\ pending' = IF Loaded(r) THEN FALSE
                ELSE IF op # "load" /\ r.loadCalled THEN TRUE
                ELSE pending
  /\ present' = IF r.loadCalled THEN envL.present ELSE present
  /\ content' = IF r.loadCalled THEN envL.content ELSE content
  /\ mtime' = IF r.loadCalled THEN envL.mtime ELSE mtime
  /\ clock' = IF Loaded(r) THEN tr ELSE clock
  /\ UNCHANGED <<kind, interval, aux>>

\* The backing resource when load() looks at it: as needs_refresh() saw it,
\* or deleted in between.
EnvAtLoad(vanish) ==
  IF vanish THEN [present |-> FALSE, content |-> BadContent, mtime |-> 0] ELSE Env

\* Whether a refresh() made now reaches load(): only then does it matter what
\* happens to the backing resource and to the clock during the call.
ReachesLoad ==
  /\ gate_open(Self, interval, clock)
  /\ needs_refresh(kind, [Self EXCEPT !.last_check = clock], Env).err = "none"
  /\ needs_refresh(kind, [Self EXCEPT !.last_check = clock], Env).val

Vanishes == IF ReachesLoad THEN BOOLEAN ELSE {FALSE}
TimesCheck == IF ReachesLoad THEN LoadTimes(clock) ELSE {clock}
TimesRefresh(tc) == IF ReachesLoad THEN LoadTimes(tc) ELSE {clock}

\* A call of refresh()
Refresh ==
  \E vanish \in Vanishes, tc \in TimesCheck :
    \E tr \in TimesRefresh(tc) :
      Install("refresh", <<>>, <<>>,
              refresh(kind, Self, interval, clock, Env, EnvAtLoad(vanish), tc, tr),
              EnvAtLoad(vanish), tr)

\* A call of fetch(adds, subs)
Fetch ==
  \E adds \in Reqs, subs \in Reqs, vanish \in Vanishes, tc \in TimesCheck :
    \E tr \in TimesRefresh(tc) :
      Install("fetch", adds, subs,
              fetch(kind, Self, interval, clock, Env, EnvAtLoad(vanish), tc, tr,
                    adds, subs),
              EnvAtLoad(vanish), tr)

\* A call of list_chunks()
ListChunks ==
  \E vanish \in Vanishes, tc \in TimesCheck :
    \E tr \in TimesRefresh(tc) :
      Install("list_chunks", <<>>, <<>>,
              list_chunks(kind, Self, interval, clock, Env, EnvAtLoad(vanish), tc, tr),
              EnvAtLoad(vanish), tr)

\* A direct call of load()
Load ==
  \E tc \in LoadTimes(clock) :
    \E tr \in LoadTimes(tc) :
      LET l == load(kind, Self, Env, tc, tr) IN
      /\ l.err # "none" => tc = clock /\ tr = clock
      /\ Install("load", <<>>, <<>>,
                 [self |-> l.self, err |-> l.err, ret |-> None, gate |-> FALSE,
                  probed |-> FALSE, stale |-> FALSE, loadCalled |-> TRUE],
                 Env, tr)

\* A call of find_prefix(prefix)
FindPrefix ==
  \E prefix \in Nums :
    Install("find_prefix", <<prefix>>, <<>>,
            find_prefix(kind, Self, interval, clock, Env, prefix), Env, clock)

\* One second passes
Tick ==
  /\ clock < MaxTime
  /\ clock' = clock + 1
  /\ UNCHANGED <<kind, interval, present, content, mtime, last_refresh, last_check,
                 chunks, chunk_index, current_etag, last, lastProbe, calls, pending, aux>>

\* The backing resource is (re)written: the file's mtime becomes the clock
WriteBackend ==
  \E c \in Contents :
    /\ kind # "Source"
    /\ present' = TRUE
    /\ content' = c
    /\ mtime' = IF kind = "FileSource" THEN clock ELSE mtime
    /\ UNCHANGED <<kind, interval, clock, last_refresh, last_check, chunks,
                   chunk_index, current_etag, last, lastProbe, calls, pending, aux>>

\* The file's modification time is advanced past the clock (os.utime, or a
\* write stamped by a clock ahead of this process's)
TouchBackend ==
  \E t \in Times :
    /\ kind = "FileSource"
    /\ present
    /\ t > mtime
    /\ t = clock + 1
    /\ mtime' = t
    /\ UNCHANGED <<kind, interval, clock, present, content, last_refresh, last_check,
                   chunks, chunk_index, current_etag, last, lastProbe, calls, pending, aux>>

\* The backing resource is deleted (nothing is left of its bytes and mtime)
DeleteBackend ==
  /\ kind # "Source"
  /\ present
  /\ present' = FALSE
  /\ content' = BadContent
  /\ mtime' = 0
  /\ UNCHANGED <<kind, interval, clock, last_refresh, last_check,
                 chunks, chunk_index, current_etag, last, lastProbe, calls, pending, aux>>

Next ==
  \/ Refresh
  \/ Fetch
  \/ ListChunks
  \/ Load
  \/ FindPrefix
  \/ Tick
  \/ WriteBackend
  \/ TouchBackend
  \/ DeleteBackend

Spec == Init /\ [][Next]_vars

\* S3FileSource.__init__ on a URL whose path is one of Paths: the object as
\* Source.__init__ leaves it, key_name not yet assigned
InitKey ==
  /\ kind = "S3FileSource"
  /\ interval \in 0..MaxInterval
  /\ clock = 0
  /\ present = FALSE
  /\ content = BadContent
  /\ mtime = 0
  /\ last_refresh = 0
  /\ last_check = 0
  /\ chunks = None
  /\ chunk_index = None
  /\ current_etag = None
  /\ last = NoCall
  /\ lastProbe = None
  /\ calls = 0
  /\ pending = FALSE
  /\ threads = <<>>
  /\ url_path \in Paths
  /\ key_name = None

\* The assignment of self.key_name
Construct ==
  /\ key_name = None
  /\ key_name' = Some(compute_key_name(url_path))
  /\ UNCHANGED <<kind, interval, clock, present, content, mtime, last_refresh, last_check,
                 chunks, chunk_index, current_etag, last, lastProbe, calls, pending,
                 threads, url_path>>

SpecKey == InitKey /\ [][Construct]_vars

\* ------------------------------------------------- concurrent callers
\* Several callers run refresh() / fetch() / list_chunks() on one Source with
\* no lock: each statement that reads or assigns an attribute of self is a
\* step of its own, and the steps of different callers interleave.
Thr == 1..NThreads

\* A caller outside any method, and its locals: op the method it runs, now
\* the local of refresh(), fp the stream load() opened, seen the revision of
\* the collection fetch() took its add chunks from
Idle == [pc |-> "idle", op |-> "none", now |-> 0, fp |-> BadContent, seen |-> 0]

\* What the steps of the callers and of the environment leave alone
hist == <<last, lastProbe, calls, pending, url_path, key_name>>

\* The caller leaves refresh(): back in fetch() / list_chunks(), or done
AfterRefresh(th) ==
  IF th.op = "refresh" THEN Idle ELSE [Idle EXCEPT !.pc = "body", !.op = th.op]

\* A Source constructed one second before the clock's bound, over a resource
\* that exists
InitConc ==
  /\ kind \in {"FileSource", "S3FileSource"}
  /\ interval \in 0..MaxInterval
  /\ clock = MaxTime - 1
  /\ present = TRUE
  /\ content \in Contents
  /\ mtime = IF kind = "FileSource" THEN clock ELSE 0
  /\ last_refresh = 0
  /\ last_check = 0
  /\ chunks = None
  /\ chunk_index = None
  /\ current_etag = None
  /\ last = NoCall
  /\ lastProbe = None
  /\ calls = 0
  /\ pending = FALSE
  /\ threads = [t \in Thr |-> Idle]
  /\ url_path = <<>>
  /\ key_name = None

\* A method is entered; refresh() reads the clock (line 45)
ConcCall(t) ==
  \E op \in {"refresh", "fetch", "list_chunks"} :
    /\ threads[t].pc = "idle"
    /\ threads' = [threads EXCEPT ![t] = [Idle EXCEPT !.pc = "gate", !.op = op,
                                                       !.now = clock]]
    /\ UNCHANGED <<kind, interval, clock, present, content, mtime, last_refresh,
                   last_check, chunks, chunk_index, current_etag, hist>>

\* The interval gate reads self.last_check (line 46)
ConcGate(t) ==
  /\ threads[t].pc = "gate"
  /\ threads' = [threads EXCEPT ![t] =
                   IF gate_open(Self, interval, threads[t].now)
                     THEN [@ EXCEPT !.pc = "stamp"]
                     ELSE AfterRefresh(@)]
  /\ UNCHANGED <<kind, interval, clock, present, content, mtime, last_refresh,
                 last_check, chunks, chunk_index, current_etag, hist>>

\* self.last_check = now (line 47)
ConcStamp(t) ==
  /\ threads[t].pc = "stamp"
  /\ last_check' = threads[t].now
  /\ threads' = [threads EXCEPT ![t].pc = "probe"]
  /\ UNCHANGED <<kind, interval, clock, present, content, mtime, last_refresh,
                 chunks, chunk_index, current_etag, hist>>

\* self.needs_refresh() (line 48): an exception ends the call
ConcProbe(t) ==
  /\ threads[t].pc = "probe"
  /\ LET nr == needs_refresh(kind, Self, Env) IN
     threads' = [threads EXCEPT ![t] =
                   IF nr.err # "none" THEN Idle
                   ELSE IF nr.val THEN [@ EXCEPT !.pc = "open"]
                   ELSE AfterRefresh(@)]
  /\ UNCHANGED <<kind, interval, clock, present, content, mtime, last_refresh,
                 last_check, chunks, chunk_index, current_etag, hist>>

\* load() tests that the resource exists and opens it (lines 82-87, 115-120)
ConcOpen(t) ==
  /\ threads[t].pc = "open"
  /\ threads' = [threads EXCEPT ![t] =
                   IF ~present THEN Idle
                   ELSE [@ EXCEPT !.pc = "parse", !.fp = content]]
  /\ UNCHANGED <<kind, interval, clock, present, content, mtime, last_refresh,
                 last_check, chunks, chunk_index, current_etag, hist>>

\* self.chunks = parser_func(fp) (line 35): ParseError ends the call
ConcParse(t) ==
  /\ threads[t].pc = "parse"
  /\ IF threads[t].fp.ok
       THEN /\ chunks' = Some(parse_file_source(threads[t].fp))
            /\ threads' = [threads EXCEPT ![t].pc = "set_check"]
       ELSE /\ chunks' = chunks
            /\ threads' = [threads EXCEPT ![t] = Idle]
  /\ UNCHANGED <<kind, interval, clock, present, content, mtime, last_refresh,
                 last_check, chunk_index, current_etag, hist>>

\* self.last_check = int(time.time()) (line 36)
ConcSetCheck(t) ==
  /\ threads[t].pc = "set_check"
  /\ last_check' = clock
  /\ threads' = [threads EXCEPT ![t].pc = "set_refresh"]
  /\ UNCHANGED <<kind, interval, clock, present, content, mtime, last_refresh,
                 chunks, chunk_index, current_etag, hist>>

\* self.last_refresh = int(time.time()) (line 37)
ConcSetRefresh(t) ==
  /\ threads[t].pc = "set_refresh"
  /\ last_refresh' = clock
  /\ threads' = [threads EXCEPT ![t].pc = "index"]
  /\ UNCHANGED <<kind, interval, clock, present, content, mtime, last_check,
                 chunks, chunk_index, current_etag, hist>>

\* self.chunk_index = {...} from the self.chunks of that moment (lines 38-39);
\* FileSource.load returns, S3FileSource.load goes on to line 124
ConcIndex(t) ==
  /\ threads[t].pc = "index"
  /\ chunk_index' = Some([adds |-> DOMAIN chunks[1].adds, subs |-> DOMAIN chunks[1].subs])
  /\ threads' = [threads EXCEPT ![t] =
                   IF kind = "S3FileSource" THEN [@ EXCEPT !.pc = "etag"]
                   ELSE AfterRefresh(@)]
  /\ UNCHANGED <<kind, interval, clock, present, content, mtime, last_refresh,
                 last_check, chunks, current_etag, hist>>

\* self.current_etag = s3key.etag (line 124)
ConcEtag(t) ==
  /\ threads[t].pc = "etag"
  /\ current_etag' = Some(etag(threads[t].fp))
  /\ threads' = [threads EXCEPT ![t] = AfterRefresh(@)]
  /\ UNCHANGED <<kind, interval, clock, present, content, mtime, last_refresh,
                 last_check, chunks, chunk_index, hist>>

\* After refresh(): list_chunks() reads self.chunk_index and returns (line
\* 68); fetch([1], [MaxChunk]) reads self.chunks.adds (lines 60-61), None
\* raising AttributeError
ConcBody(t) ==
  /\ threads[t].pc = "body"
  /\ threads' = [threads EXCEPT ![t] =
                   IF @.op = "fetch" /\ chunks # None
                     THEN [@ EXCEPT !.pc = "subs", !.seen = chunks[1].adds[1].rev]
                     ELSE Idle]
  /\ UNCHANGED <<kind, interval, clock, present, content, mtime, last_refresh,
                 last_check, chunks, chunk_index, current_etag, hist>>

\* fetch() reads self.chunks.subs (lines 62-63) and returns
ConcSubs(t) ==
  /\ threads[t].pc = "subs"
  /\ threads' = [threads EXCEPT ![t] = Idle]
  /\ UNCHANGED <<kind, interval, clock, present, content, mtime, last_refresh,
                 last_check, chunks, chunk_index, current_etag, hist>>

NextConc ==
  \/ \E t \in Thr :
       \/ ConcCall(t)
       \/ ConcGate(t)
       \/ ConcStamp(t)
       \/ ConcProbe(t)
       \/ ConcOpen(t)
       \/ ConcParse(t)
       \/ ConcSetCheck(t)
       \/ ConcSetRefresh(t)
       \/ ConcIndex(t)
       \/ ConcEtag(t)
       \/ ConcBody(t)
       \/ ConcSubs(t)
  \/ Tick
  \/ WriteBackend

SpecConc == InitConc /\ [][NextConc]_vars

\* -------------------------------------------------------------- claims
\* The step is a call of method op
Called(op) == calls' # calls /\ last'.op = op
\* A step that runs the refresh protocol: refresh() itself or a query
Query == Called("fetch") \/ Called("list_chunks")
RefreshCall == Called("refresh") \/ Query

\* The backing resource cannot be loaded: absent, or unparsable
BackendFailing == ~present \/ ~content.ok

\* Exceptions raised by the probe or by load()
BackendErrors == {"NoDataError", "ParseError", "OSError", "AttributeError"}

\* C1: a refresh() (direct or through a query) made at a time now with
\* now - last_check < interval performs no needs_refresh() probe and no
\* load(), changes nothing of the Source and, called directly, returns
\* False; and a call made within interval of a call that probed does not
\* probe again.
C1_GatedRefreshIsNoOp ==
  [][ RefreshCall =>
        /\ (clock - last_check < interval =>
              /\ ~last'.probed
              /\ ~last'.loadCalled
              /\ Self' = Self
              /\ (last'.op = "refresh" => last'.err = "none" /\ last'.ret = Some(Bool(FALSE))))
        /\ (lastProbe # None /\ clock - lastProbe[1] < interval => ~last'.probed)
    ]_vars

\* C1 witness: a refresh() skipped by the gate within interval of a probe
C1_Witness ==
  /\ last.op = "refresh"
  /\ ~last.gate
  /\ lastProbe # None
  /\ clock - lastProbe[1] < interval

\* C2: in every state chunk_index is the pair of key sets of chunks, and both
\* are absent together.
C2_ChunkIndexConsistent ==
  /\ (chunks = None <=> chunk_index = None)
  /\ (chunks # None =>
        /\ chunk_index[1].adds = DOMAIN chunks[1].adds
        /\ chunk_index[1].subs = DOMAIN chunks[1].subs)

\* C2 witness: a loaded Source after a failed load
C2_Witness ==
  /\ chunks # None
  /\ last.op \in {"load", "refresh", "fetch", "list_chunks"}
  /\ last.loadCalled
  /\ last.err \in {"NoDataError", "ParseError"}

\* The records fetch() owes for a request against collection c
Requested(c, adds, subs) ==
  [adds |-> [i \in 1..Len(adds) |-> c.adds[adds[i]]],
   subs |-> [i \in 1..Len(subs) |-> c.subs[subs[i]]]]

AllPresent(c, adds, subs) ==
  /\ \A i \in 1..Len(adds) : adds[i] \in DOMAIN c.adds
  /\ \A i \in 1..Len(subs) : subs[i] \in DOMAIN c.subs

\* The call recorded in l answered from collection c without any backend error
AnsweredFrom(c, l) ==
  /\ l.op = "list_chunks" =>
       l.err = "none" /\ l.ret = Some(Pair(DOMAIN c.adds, DOMAIN c.subs))
  /\ l.op = "fetch" =>
       IF AllPresent(c, l.adds, l.subs)
         THEN l.err = "none" /\ l.ret = Some(Requested(c, l.adds, l.subs))
         ELSE l.err = "KeyError" /\ l.ret = None

\* C3 as stated, for a backend that fails by being unparsable: a query
\* against a loaded Source whose resource cannot be parsed does not fail with
\* the backend's error; it is answered from the loaded data.
C3_Original ==
  [][ (Query /\ chunks # None /\ present /\ ~content.ok) =>
        /\ last'.err \notin BackendErrors
        /\ AnsweredFrom(chunks[1], last')
    ]_vars

\* C3 amended: a query against a loaded Source whose backend is failing
\* leaves chunks and chunk_index at the last loaded data; it is answered
\* from them when the interval gate skips the check or needs_refresh()
\* reports not stale, and otherwise fails with the backend's error: that of
\* needs_refresh() on an absent resource (OSError, AttributeError), else
\* that of load() (NoDataError if the resource is gone by then, ParseError).
C3_DegradesOnlyWhenNotReloading ==
  [][ (Query /\ chunks # None /\ BackendFailing) =>
        /\ chunks' = chunks
        /\ chunk_index' = chunk_index
        /\ last_refresh' = last_refresh
        /\ (last'.gate <=> clock - last_check >= interval)
        /\ IF ~last'.gate \/ (present /\ ~last'.stale)
             THEN AnsweredFrom(chunks[1], last')
             ELSE /\ last'.ret = None
                  /\ last'.err = IF ~present
                                   THEN (IF kind = "FileSource" THEN "OSError"
                                                                ELSE "AttributeError")
                                 ELSE IF ~present' THEN "NoDataError"
                                 ELSE "ParseError"
    ]_vars

\* C3 witness: list_chunks() answered from the loaded data, the check being
\* skipped, while the backend is failing
C3_Witness ==
  /\ last.op = "list_chunks"
  /\ chunks # None
  /\ BackendFailing
  /\ ~last.gate
  /\ last.err = "none"

\* A reload attempted through the refresh protocol has failed
FailedReload(l) == l.loadCalled /\ l.err \in {"NoDataError", "ParseError"}

\* C4 as stated: a reload through refresh() that fails leaves chunks,
\* chunk_index, last_check and last_refresh as they were.
C4_Original ==
  [][ (RefreshCall /\ FailedReload(last')) =>
        /\ chunks' = chunks
        /\ chunk_index' = chunk_index
        /\ last_refresh' = last_refresh
        /\ last_check' = last_check
    ]_vars

\* C4 amended: a reload through refresh() that fails leaves chunks,
\* chunk_index, last_refresh and current_etag as they were, and last_check is
\* the time now at which refresh() was called.
C4_FailedReloadKeepsAllButLastCheck ==
  [][ (RefreshCall /\ FailedReload(last')) =>
        /\ chunks' = chunks
        /\ chunk_index' = chunk_index
        /\ last_refresh' = last_refresh
        /\ current_etag' = current_etag
        /\ last_check' = clock
    ]_vars

\* C4 witness: a refresh protocol run whose load() failed on a loaded Source
C4_Witness ==
  /\ last.op \in {"refresh", "fetch", "list_chunks"}
  /\ FailedReload(last)
  /\ chunks # None
  /\ last_check > last_refresh

\* C5: a direct load() that fails with NoDataError or ParseError leaves the
\* whole object (chunks, chunk_index, last_check, last_refresh, current_etag)
\* as it was.
C5_FailedLoadChangesNothing ==
  [][ (Called("load") /\ last'.err \in {"NoDataError", "ParseError"}) => Self' = Self ]_vars

\* C5 witness: a direct load() of an S3FileSource that already holds data
\* fails in the parser
C5_Witness ==
  /\ last.op = "load"
  /\ last.err = "ParseError"
  /\ kind = "S3FileSource"
  /\ current_etag # None

\* C6 as stated: a refresh protocol run that passes the gate while the backing
\* resource is absent fails with NoDataError.
C6_AbsentGivesNoDataError ==
  [][ (RefreshCall /\ kind # "Source" /\ clock - last_check >= interval /\ ~present)
        => last'.err = "NoDataError"
    ]_vars

\* C7 as stated: before any successful load, every query made while the
\* backend is failing fails with NoDataError or ParseError.
C7_FailingQueriesRaiseLoadError ==
  [][ (Query /\ kind # "Source" /\ chunks = None /\ BackendFailing)
        => last'.err \in {"NoDataError", "ParseError"}
    ]_vars

\* C8: a refresh() for which the gate skips the check or needs_refresh()
\* returns False leaves chunks, chunk_index and last_refresh unchanged and
\* returns False.
C8_NotStaleRefreshIsIdempotent ==
  [][ (Called("refresh") /\ (clock - last_check < interval
                     \/ needs_refresh(kind, Self, Env) = [err |-> "none", val |-> FALSE]))
        => /\ chunks' = chunks
           /\ chunk_index' = chunk_index
           /\ last_refresh' = last_refresh
           /\ last'.err = "none"
           /\ last'.ret = Some(Bool(FALSE))
    ]_vars

\* C8 witness: refresh() probed a loaded Source and found it not stale
C8_Witness ==
  /\ last.op = "refresh"
  /\ last.probed
  /\ ~last.stale
  /\ last.err = "none"
  /\ chunks # None

\* What the backend's staleness signal says of the object before the call
Stale ==
  CASE kind = "FileSource" -> present /\ mtime > last_refresh
    [] kind = "S3FileSource" -> present /\ Some(etag(content)) # current_etag
    [] OTHER -> FALSE

\* C9: refresh() returns True exactly when the gate passed, the backend was
\* stale and load() succeeded (the resource present and parsable when
\* read); then chunks and chunk_index are those of the parsed collection and
\* last_check and last_refresh are times read during the call.  Any other
\* call that raises nothing returns False.
C9_RefreshReturnsTrueIffReloaded ==
  [][ Called("refresh") =>
        /\ (last'.err = "none" /\ last'.ret = Some(Bool(TRUE)))
             <=> (clock - last_check >= interval /\ Stale /\ present' /\ content'.ok)
        /\ (last'.err = "none" /\ last'.ret = Some(Bool(TRUE))) =>
             /\ chunks' = Some(parse_file_source(content'))
             /\ chunk_index' = Some([adds |-> content'.a, subs |-> content'.s])
             /\ clock <= last_check'
             /\ last_check' <= last_refresh'
             /\ last_refresh' = clock'
        /\ (last'.err = "none" /\ last'.ret # Some(Bool(TRUE))) => last'.ret = Some(Bool(FALSE))
        /\ (last'.err # "none") => last'.ret = None
    ]_vars

\* C9 witness: a refresh() that reloaded a Source that already held data
C9_Witness ==
  /\ last.op = "refresh"
  /\ last.err = "none"
  /\ last.ret = Some(Bool(TRUE))
  /\ last_refresh > 0
  /\ chunks # None
  /\ chunks[1] = parse_file_source(content)
  /\ content.rev > 1

\* C10: a fetch() whose refresh() raised nothing, against a loaded
\* collection, returns exactly the records of the requested numbers when all
\* are present and otherwise raises KeyError and returns nothing.
C10_FetchIsExact ==
  [][ (Called("fetch") /\ chunks' # None /\ last'.err \notin BackendErrors) =>
        IF AllPresent(chunks'[1], last'.adds, last'.subs)
          THEN /\ last'.err = "none"
               /\ last'.ret = Some(Requested(chunks'[1], last'.adds, last'.subs))
               /\ Len(last'.ret[1].adds) = Len(last'.adds)
               /\ Len(last'.ret[1].subs) = Len(last'.subs)
          ELSE /\ last'.err = "KeyError"
               /\ last'.ret = None
    ]_vars

\* C10 witness: fetch() finds the requested add chunk, misses the requested
\* sub chunk and raises KeyError
C10_Witness ==
  /\ last.op = "fetch"
  /\ last.err = "KeyError"
  /\ chunks # None
  /\ Len(last.adds) > 0
  /\ Len(last.subs) > 0
  /\ \A i \in 1..Len(last.adds) : last.adds[i] \in DOMAIN chunks[1].adds

\* The refresh protocol passes the interval gate in this step and finds the
\* backing resource in place
GatePassed == RefreshCall /\ clock - last_check >= interval /\ present

\* C11: for a FileSource, needs_refresh() reports stale iff the file's mtime
\* is greater than last_refresh, and a check that passes the gate reloads
\* exactly then; a reload that succeeds installs the file's content and
\* leaves last_refresh >= mtime, so the file is no longer stale; and a file
\* that is not stale stays so for as long as its mtime does not change.
\* (Violated: last_refresh is stamped with the clock, which may be behind the
\* mtime the file was advanced to.)
C11_FileStaleIffMtimeNewer ==
  [][ /\ (GatePassed /\ kind = "FileSource") =>
            /\ (last'.stale <=> mtime > last_refresh)
            /\ (last'.loadCalled <=> mtime > last_refresh)
            /\ (last'.loadCalled /\ present' /\ content.ok) =>
                  /\ chunks' = Some(parse_file_source(content))
                  /\ last_refresh' >= mtime
                  /\ ~(mtime' > last_refresh')
            /\ ~last'.loadCalled => chunks' = chunks /\ last_refresh' = last_refresh
      /\ (kind = "FileSource" /\ present /\ present' /\ mtime' = mtime
            /\ ~(mtime > last_refresh)) => ~(mtime' > last_refresh')
    ]_vars

\* C12: for an S3FileSource, a check that passes the gate reloads iff the
\* object's etag differs from current_etag; a reload that succeeds installs
\* the object's content and makes current_etag the etag of that object (so
\* the next check with the same etag does not reload); otherwise
\* current_etag is unchanged.
C12_S3ReloadIffEtagDiffers ==
  [][ (GatePassed /\ kind = "S3FileSource") =>
        /\ (last'.stale <=> Some(etag(content)) # current_etag)
        /\ (last'.loadCalled <=> Some(etag(content)) # current_etag)
        /\ IF last'.loadCalled /\ present' /\ content.ok
             THEN /\ chunks' = Some(parse_file_source(content))
                  /\ current_etag' = Some(etag(content'))
             ELSE /\ chunks' = chunks
                  /\ current_etag' = current_etag
    ]_vars

\* C12 witness: a refresh() reloaded an S3FileSource and recorded the etag
C12_Witness ==
  /\ kind = "S3FileSource"
  /\ last.op = "refresh"
  /\ last.loadCalled
  /\ last.err = "none"
  /\ content.rev > 1
  /\ current_etag = Some(etag(content))
  /\ chunks = Some(parse_file_source(content))

\* C13: the key_name S3FileSource computes at construction never begins with
\* a path separator, whatever the path of the source URL.
\* (Violated: only a lone leading "/" directly before the last segment is
\* dropped; "/a/a" and "//a/a" keep their leading separators.)
C13_KeyNameHasNoLeadingSeparator ==
  key_name # None => ~startswith(key_name[1], slashes(1))

\* C14: find_prefix(prefix) runs no part of the refresh protocol: no gate
\* test, no staleness probe, no load; it leaves last_check, last_refresh,
\* chunks, chunk_index and current_etag (and the backing resource) as they
\* were, and answers from the collection that is loaded at that moment,
\* raising AttributeError when none is.
C14_FindPrefixNeverRefreshes ==
  [][ Called("find_prefix") =>
        /\ Self' = Self
        /\ ~last'.gate /\ ~last'.probed /\ ~last'.loadCalled
        /\ lastProbe' = lastProbe
        /\ Env' = Env /\ clock' = clock
        /\ IF chunks = None
             THEN last'.err = "AttributeError"
             ELSE /\ last'.err = "none"
                  /\ last'.ret = Some(ChunkList_find_prefix(chunks[1], last'.adds[1]))
    ]_vars

\* C14 witness: find_prefix answered from an outdated collection although
\* the backend was stale and the check interval had elapsed
C14_Witness ==
  /\ last.op = "find_prefix"
  /\ last.err = "none"
  /\ last.ret[1].found # {}
  /\ Stale
  /\ clock - last_check >= interval
  /\ content.ok
  /\ chunks # Some(parse_file_source(content))

\* Caller t is inside load(), between opening the resource and returning
InLoad(t) == threads[t].pc \in {"parse", "set_check", "set_refresh", "index", "etag"}

\* C15: with concurrent callers, a query reads a whole snapshot: when
\* list_chunks() or fetch() reads the collection after its refresh(),
\* chunk_index is the index of chunks, and fetch() takes its sub chunks from
\* the collection it took its add chunks from.
\* (Violated: another caller's reload assigns the attributes one by one.)
C15_QueriesSeeWholeSnapshots ==
  [][ \A t \in Thr :
        /\ (threads[t].pc = "body" /\ threads'[t].pc # "body") =>
              /\ (chunks = None <=> chunk_index = None)
              /\ (chunks # None =>
                    /\ chunk_index[1].adds = DOMAIN chunks[1].adds
                    /\ chunk_index[1].subs = DOMAIN chunks[1].subs)
        /\ (threads[t].pc = "subs" /\ threads'[t].pc # "subs") =>
              chunks[1].subs[MaxChunk].rev = threads[t].seen
    ]_vars

\* C16: with concurrent callers, at most one of them is inside load() at any
\* time.
\* (Violated: nothing excludes a second caller between the gate and load.)
C16_AtMostOneReloadInFlight ==
  Cardinality({t \in Thr : InLoad(t)}) <= 1

\* C17: last_check never decreases, in any interleaving of callers, the
\* clock being non-decreasing.
\* (Violated: a caller assigns the clock value it read before another caller
\* assigned a later one.)
C17_LastCheckOnlyAdvances ==
  [][ last_check' >= last_check ]_vars

\* C18: on a freshly constructed FileSource or S3FileSource whose backing
\* resource exists, the first refresh() passes the interval gate, finds the
\* resource stale and calls load(), whatever the file's modification time
\* and the object's etag (here even for intervals no longer than the clock).
\* (Violated: a file whose mtime is 0 is not newer than last_refresh = 0.)
C18_FirstCheckLoads ==
  [][ (Called("refresh") /\ last.op = "init" /\ kind # "Source" /\ present
         /\ clock >= interval) =>
        last'.gate /\ last'.stale /\ last'.loadCalled
    ]_vars

\* The loaded collection is not the one the file holds now: the file was
\* modified after the latest successful load read it
Outdated == content.ok /\ chunks # None /\ chunks # Some(parse_file_source(content))

\* C19: a FileSource misses no modification: when the file was modified after
\* the latest successful load read it, the next refresh() that passes the
\* gate reloads it.
\* (Violated: a write in the clock second of last_refresh is not newer.)
C19_NoModificationMissed ==
  [][ (GatePassed /\ kind = "FileSource" /\ Outdated) => last'.loadCalled ]_vars

\* C20: a reload that fails inside refresh() leaves last_refresh and
\* current_etag as they were; and while such a failure has not been followed
\* by a successful reload, a refresh() that passes the gate and finds healthy
\* backend content other than the loaded collection reloads it successfully.
\* (Violated: the repaired file's mtime may be no newer than last_refresh.)
C20_FailedReloadIsRetried ==
  [][ /\ (RefreshCall /\ last'.loadCalled /\ last'.err \in {"NoDataError", "ParseError"}) =>
            /\ last_refresh' = last_refresh
            /\ current_etag' = current_etag
            /\ pending'
      /\ (GatePassed /\ pending /\ content.ok /\ present'
            /\ chunks # Some(parse_file_source(content))) =>
            /\ last'.loadCalled
            /\ last'.err \in {"none", "KeyError"}
            /\ chunks' = Some(parse_file_source(content))
            /\ ~pending'
    ]_vars

====
